---- MODULE Spec2Model ----
(***************************************************************************)
(* State-machine model of the dashboard query layer (data queries) and of  *)
(* the pure helpers of app/lib/utils.ts.                                    *)
(*                                                                         *)
(* Text is a sequence of one-character strings, so that substring and      *)
(* pattern matching, case folding and number/date rendering are computed.  *)
(* A date is the day of the month of January 2024.  The fields of a record *)
(* are written in one fixed order throughout.                              *)
(***************************************************************************)
EXTENDS Integers, Sequences, FiniteSets, TLC

VARIABLES
  customers,   \* table customers: a sequence (heap order) of rows
  invoices,    \* table invoices: a sequence (heap order) of rows
  revenue,     \* table revenue: a sequence (heap order) of rows
  pc,          \* "idle" | "awaiting" | "done": position of the running async call
  call,        \* the running (or last) call: [fn, query, page, id]
  sent,        \* the SQL statements sent for the call, in order
  promises,    \* fetchCardData's three queries: "none" | "pending" | "ok" | "failed"
  order,       \* fetchCardData: indices of its queries in order of completion
  reply,       \* the database's answer to the awaited query: "none" | "ok" | "failed"
  out,         \* how the call ended: [kind |-> "none" | "value" | "error", ...]
  prev,        \* outcome of the immediately preceding call with the same arguments
  walk,        \* history: a caller's walk through one query's listing, the total
               \* page count and then pages 1, 2, ... as they were returned
  util         \* the pure helper applied last: [fn, input, output]

vars == <<customers, invoices, revenue, pc, call, sent, promises, order,
          reply, out, prev, walk, util>>

dbVars == <<customers, invoices, revenue>>

---------------------------------------------------------------------------
(* Bounds of the model. *)

MaxInvoices == 7      \* rows in table invoices
MaxCardInvoices == 3  \* rows in table invoices under fetchCardData
MaxPage == 2          \* largest page number a caller passes
MaxRevenueLen == 3    \* longest revenue sequence given to generateYAxis
MaxTotalPages == 9    \* largest totalPages given to generatePagination

---------------------------------------------------------------------------
(* Text helpers. *)

\* One character folded to lower case, as ILIKE compares; the letters are those
\* the tables and the queries of the model hold in upper case.
LowerChar(c) ==
  CASE c = "A" -> "a"
    [] c = "B" -> "b"
    [] c = "C" -> "c"
    [] c = "P" -> "p"
    [] OTHER -> c

Lower(t) == [i \in 1..Len(t) |-> LowerChar(t[i])]

Digits == <<"0", "1", "2", "3", "4", "5", "6", "7", "8", "9">>

RECURSIVE NatText(_)
NatText(n) ==
  IF n < 10 THEN <<Digits[n + 1]>>
  ELSE NatText(n \div 10) \o <<Digits[(n % 10) + 1]>>

\* integer::text
IntText(n) == IF n < 0 THEN <<"-">> \o NatText(0 - n) ELSE NatText(n)

\* date::text, ISO style YYYY-MM-DD
DateText(d) ==
  <<"2", "0", "2", "4", "-", "0", "1", "-">>
    \o (IF d < 10 THEN <<"0">> ELSE <<>>) \o NatText(d)

\* SQL LIKE from position i of the text and j of the pattern: % matches any
\* run of characters, _ any one character.
RECURSIVE LikeMatchAt(_, _, _, _)
LikeMatchAt(t, i, p, j) ==
  IF j > Len(p) THEN i > Len(t)
  ELSE IF p[j] = "%"
    THEN LikeMatchAt(t, i, p, j + 1) \/ (i <= Len(t) /\ LikeMatchAt(t, i + 1, p, j))
  ELSE IF p[j] = "_"
    THEN i <= Len(t) /\ LikeMatchAt(t, i + 1, p, j + 1)
  ELSE i <= Len(t) /\ t[i] = p[j] /\ LikeMatchAt(t, i + 1, p, j + 1)

LikeMatch(t, p) == LikeMatchAt(t, 1, p, 1)

\* text ILIKE pattern
ILike(t, p) == LikeMatch(Lower(t), Lower(p))

\* the template literal `%${query}%`
Pattern(query) == <<"%">> \o query \o <<"%">>

---------------------------------------------------------------------------
(* Values. *)

ITEMS_PER_PAGE == 6

PAID == <<"p", "a", "i", "d">>
PENDING == <<"p", "e", "n", "d", "i", "n", "g">>

\* JavaScript's undefined; SQL NULL and a missing column are the empty
\* sequence, a present column value v is <<v>>.
Undefined == [undefined |-> TRUE]
Null == <<>>

\* x ?? d
Coalesce(x, d) == IF x = Null THEN d ELSE x[1]

Customer(id, name, email) ==
  [id |-> id, name |-> name, email |-> email, image_url |-> "/c.png"]

CustomerTable ==
  << Customer(1, <<"A", "m", "y">>, <<"a", "@", "x">>),
     Customer(3, <<"C", "y">>, <<"c", "@", "z">>),
     Customer(2, <<"B", "o">>, <<"b", "@", "y">>) >>

\* The invoice rows a table is filled with: of two customers, with two dates
\* and both statuses, and one of no customer (the schema declares no foreign
\* key).  Rows of one kind share their date.
InvoiceKinds ==
  << [customer_id |-> 1, amount |-> 1250, date |-> 5, status |-> PAID],
     [customer_id |-> 2, amount |-> 500, date |-> 9, status |-> PENDING],
     [customer_id |-> 4, amount |-> 300, date |-> 9, status |-> PAID] >>

\* A table whose first c[1] rows are of kind 1, the rows up to c[2] of kind 2,
\* and so on; ids 1, 2, ... in heap order.
KindAt(c, i) ==
  CHOOSE k \in 1..Len(c) :
    LET before == IF k = 1 THEN 0 ELSE c[k - 1] IN before < i /\ i <= c[k]

InvoiceTables(max) ==
  { [i \in 1..c[Len(InvoiceKinds)] |->
       LET kind == InvoiceKinds[KindAt(c, i)] IN
       [id |-> i, customer_id |-> kind.customer_id, amount |-> kind.amount,
        date |-> kind.date, status |-> kind.status]] :
    c \in { d \in [1..Len(InvoiceKinds) -> 0..max] :
              \A k \in 1..(Len(InvoiceKinds) - 1) : d[k] <= d[k + 1] } }

RevenueTable ==
  << [revenue |-> 1200, month |-> "Jan"],
     [revenue |-> 4500, month |-> "Feb"],
     [revenue |-> 2300, month |-> "Mar"] >>

Queries == { <<>>, <<"b">>, <<"P", "A">>, <<"9">>, <<"z">> }

Pages == 0..MaxPage

---------------------------------------------------------------------------
(* formatCurrency: (amount / 100).toLocaleString('en-US', currency USD). *)

Pad(n, width) ==
  (IF width >= 3 /\ n < 100 THEN "0" ELSE "")
    \o (IF width >= 2 /\ n < 10 THEN "0" ELSE "") \o ToString(n)

RECURSIVE Grouped(_)
Grouped(n) ==
  IF n < 1000 THEN ToString(n)
  ELSE Grouped(n \div 1000) \o "," \o Pad(n % 1000, 3)

formatCurrency(amount) ==
  LET a == IF amount < 0 THEN 0 - amount ELSE amount IN
  (IF amount < 0 THEN "-" ELSE "") \o "$" \o Grouped(a \div 100)
    \o "." \o Pad(a % 100, 2)

---------------------------------------------------------------------------
(* The SQL the query functions send, evaluated over the tables.  Without  *)
(* ORDER BY, and among rows equal under ORDER BY, the order of rows is     *)
(* the scan's: the table read from any heap position round.               *)

ScanStarts(table) == 1..(IF Len(table) = 0 THEN 1 ELSE Len(table))

Scan(table, start) ==
  SubSeq(table, start, Len(table)) \o SubSeq(table, 1, start - 1)

\* FROM invoices JOIN customers ON invoices.customer_id = customers.id
RECURSIVE JoinInvoicesCustomers(_, _)
JoinInvoicesCustomers(inv, cust) ==
  IF inv = <<>> THEN <<>>
  ELSE LET i == Head(inv)
           OnCustomer(c) == i.customer_id = c.id
           pairs == SelectSeq(cust, OnCustomer)
       IN [k \in 1..Len(pairs) |->
             [id |-> i.id, name |-> pairs[k].name, email |-> pairs[k].email,
              image_url |-> pairs[k].image_url, amount |-> i.amount,
              date |-> i.date, status |-> i.status]]
          \o JoinInvoicesCustomers(Tail(inv), cust)

\* The five-column WHERE of fetchFilteredInvoices and fetchInvoicesPages.
InvoiceMatches(row, pattern) ==
  \/ ILike(row.name, pattern)
  \/ ILike(row.email, pattern)
  \/ ILike(IntText(row.amount), pattern)
  \/ ILike(DateText(row.date), pattern)
  \/ ILike(row.status, pattern)

WhereInvoiceMatches(rows, pattern) ==
  LET Test(r) == InvoiceMatches(r, pattern) IN SelectSeq(rows, Test)

\* Mutant: the ORDER BY clause left out.
OrderByDateDescMissing(rows) == rows

\* ORDER BY invoices.date DESC: rows with equal dates stay in scan order.
RECURSIVE InsertByDateDesc(_, _)
InsertByDateDesc(sorted, r) ==
  IF sorted = <<>> THEN <<r>>
  ELSE IF Head(sorted).date >= r.date
    THEN <<Head(sorted)>> \o InsertByDateDesc(Tail(sorted), r)
    ELSE <<r>> \o sorted

RECURSIVE OrderByDateDesc(_)
OrderByDateDesc(rows) ==
  IF rows = <<>> THEN <<>>
  ELSE InsertByDateDesc(OrderByDateDesc(SubSeq(rows, 1, Len(rows) - 1)),
                        rows[Len(rows)])

\* LIMIT n OFFSET k, for k >= 0
LimitOffset(rows, n, k) ==
  SubSeq(rows, k + 1, IF k + n < Len(rows) THEN k + n ELSE Len(rows))

\* Code-point order of the characters of customer names.
Chars == <<"@", "A", "B", "C", "a", "b", "c", "m", "o", "x", "y", "z">>

CharCode(c) == CHOOSE i \in 1..Len(Chars) : Chars[i] = c

RECURSIVE TextLess(_, _)
TextLess(a, b) ==
  IF b = <<>> THEN FALSE
  ELSE IF a = <<>> THEN TRUE
  ELSE IF Head(a) = Head(b) THEN TextLess(Tail(a), Tail(b))
  ELSE CharCode(Head(a)) < CharCode(Head(b))

\* ORDER BY name ASC: rows with equal names stay in scan order.
RECURSIVE InsertByNameAsc(_, _)
InsertByNameAsc(sorted, r) ==
  IF sorted = <<>> THEN <<r>>
  ELSE IF TextLess(r.name, Head(sorted).name)
    THEN <<r>> \o sorted
    ELSE <<Head(sorted)>> \o InsertByNameAsc(Tail(sorted), r)

RECURSIVE OrderByNameAsc(_)
OrderByNameAsc(rows) ==
  IF rows = <<>> THEN <<>>
  ELSE InsertByNameAsc(OrderByNameAsc(SubSeq(rows, 1, Len(rows) - 1)),
                       rows[Len(rows)])

RECURSIVE SumOf(_)
SumOf(ns) == IF ns = <<>> THEN 0 ELSE Head(ns) + SumOf(Tail(ns))

\* SELECT * FROM revenue
SqlRevenue(start) == Scan(revenue, start)

\* SELECT amount, name, image_url, email, id ... ORDER BY date DESC LIMIT 5
SqlLatestInvoices(start) ==
  LET rows == LimitOffset(
                OrderByDateDesc(
                  JoinInvoicesCustomers(Scan(invoices, start), customers)),
                5, 0)
  IN [k \in 1..Len(rows) |->
        [id |-> rows[k].id, name |-> rows[k].name, email |-> rows[k].email,
         image_url |-> rows[k].image_url, amount |-> rows[k].amount]]

\* SELECT ... WHERE ... ORDER BY invoices.date DESC LIMIT limit OFFSET offset
SqlFilteredInvoices(pattern, limit, offset, start) ==
  LimitOffset(
    OrderByDateDesc(
      WhereInvoiceMatches(
        JoinInvoicesCustomers(Scan(invoices, start), customers), pattern)),
    limit, offset)

\* SELECT COUNT(*) FROM invoices JOIN customers ... WHERE ...
SqlCountFilteredInvoices(pattern) ==
  << [count |->
        <<Len(WhereInvoiceMatches(
                JoinInvoicesCustomers(invoices, customers), pattern))>>] >>

\* SELECT id, customer_id, amount, status FROM invoices WHERE invoices.id = id
SqlInvoiceById(id, start) ==
  LET IsId(i) == i.id = id
      rows == SelectSeq(Scan(invoices, start), IsId)
  IN [k \in 1..Len(rows) |->
        [id |-> rows[k].id, customer_id |-> rows[k].customer_id,
         amount |-> rows[k].amount, status |-> rows[k].status]]

\* SELECT id, name FROM customers ORDER BY name ASC
SqlCustomers(start) ==
  LET rows == OrderByNameAsc(Scan(customers, start))
  IN [k \in 1..Len(rows) |-> [id |-> rows[k].id, name |-> rows[k].name]]

\* Mutant: JOIN in place of LEFT JOIN.
RECURSIVE InnerJoinCustomersInvoices(_, _)
InnerJoinCustomersInvoices(cust, inv) ==
  IF cust = <<>> THEN <<>>
  ELSE LET c == Head(cust)
           OfCustomer(i) == c.id = i.customer_id
           own == SelectSeq(inv, OfCustomer)
       IN [k \in 1..Len(own) |->
             [id |-> c.id, name |-> c.name, email |-> c.email,
              image_url |-> c.image_url, invoice_id |-> <<own[k].id>>,
              invoice_status |-> <<own[k].status>>,
              invoice_amount |-> <<own[k].amount>>]]
          \o InnerJoinCustomersInvoices(Tail(cust), inv)

\* FROM customers LEFT JOIN invoices ON customers.id = invoices.customer_id:
\* a customer without invoices gives one row whose invoice columns are NULL.
RECURSIVE LeftJoinCustomersInvoices(_, _)
LeftJoinCustomersInvoices(cust, inv) ==
  IF cust = <<>> THEN <<>>
  ELSE LET c == Head(cust)
           OfCustomer(i) == c.id = i.customer_id
           own == SelectSeq(inv, OfCustomer)
           Row(i_id, i_status, i_amount) ==
             [id |-> c.id, name |-> c.name, email |-> c.email,
              image_url |-> c.image_url, invoice_id |-> i_id,
              invoice_status |-> i_status, invoice_amount |-> i_amount]
       IN (IF own = <<>> THEN <<Row(Null, Null, Null)>>
           ELSE [k \in 1..Len(own) |->
                   Row(<<own[k].id>>, <<own[k].status>>, <<own[k].amount>>)])
          \o LeftJoinCustomersInvoices(Tail(cust), inv)

\* SUM(CASE WHEN invoices.status = status THEN invoices.amount ELSE 0 END)
SumCaseStatus(rows, status) ==
  SumOf([k \in 1..Len(rows) |->
           IF rows[k].invoice_status = <<status>>
             THEN rows[k].invoice_amount[1] ELSE 0])

\* WHERE customers.name ILIKE p OR customers.email ILIKE p
CustomerMatches(row, pattern) ==
  ILike(row.name, pattern) \/ ILike(row.email, pattern)

\* GROUP BY customers.id, name, email, image_url with the three aggregates:
\* one row per group, in order of the group's first row.
RECURSIVE GroupByCustomer(_)
GroupByCustomer(rows) ==
  IF rows = <<>> THEN <<>>
  ELSE LET r == Head(rows)
           Same(x) == /\ x.id = r.id /\ x.name = r.name
                      /\ x.email = r.email /\ x.image_url = r.image_url
           Other(x) == ~Same(x)
           group == SelectSeq(rows, Same)
           HasInvoice(x) == x.invoice_id # Null
       IN << [id |-> r.id, name |-> r.name, email |-> r.email,
              image_url |-> r.image_url,
              total_invoices |-> Len(SelectSeq(group, HasInvoice)),
              total_pending |-> SumCaseStatus(group, PENDING),
              total_paid |-> SumCaseStatus(group, PAID)] >>
          \o GroupByCustomer(SelectSeq(rows, Other))

SqlFilteredCustomers(pattern, start) ==
  LET Test(r) == CustomerMatches(r, pattern)
  IN OrderByNameAsc(
       GroupByCustomer(
         SelectSeq(LeftJoinCustomersInvoices(Scan(customers, start), invoices),
                   Test)))

\* fetchCardData's three statements, by position in its Promise.all array.
SqlCardQuery(i) ==
  IF i = 1 THEN << [count |-> <<Len(invoices)>>, paid |-> Null, pending |-> Null] >>
  ELSE IF i = 2
    THEN << [count |-> <<Len(customers)>>, paid |-> Null, pending |-> Null] >>
  ELSE LET Case(status) ==
             SumOf([k \in 1..Len(invoices) |->
                      IF invoices[k].status = status
                        THEN invoices[k].amount ELSE 0])
       IN << [count |-> Null,
              paid |-> IF invoices = <<>> THEN Null ELSE <<Case(PAID)>>,
              pending |-> IF invoices = <<>> THEN Null ELSE <<Case(PENDING)>>] >>

---------------------------------------------------------------------------
(* The query functions: what each does with the rows it awaited. *)

\* Math.ceil(a / b) for b > 0
MathCeilDiv(a, b) == IF a % b = 0 THEN a \div b ELSE (a \div b) + 1

ErrorMessage(fn) ==
  CASE fn = "fetchRevenue" -> "Failed to fetch revenue data."
    [] fn = "fetchLatestInvoices" -> "Failed to fetch the latest invoices."
    [] fn = "fetchCardData" -> "Failed to fetch card data."
    [] fn = "fetchFilteredInvoices" -> "Failed to fetch invoices."
    [] fn = "fetchInvoicesPages" -> "Failed to fetch total number of invoices."
    [] fn = "fetchInvoiceById" -> "Failed to fetch invoice."
    [] fn = "fetchCustomers" -> "Failed to fetch all customers."
    [] fn = "fetchFilteredCustomers" -> "Failed to fetch customer table."

NoOutcome == [kind |-> "none"]
Return(v) == [kind |-> "value", value |-> v]
Throw(message) == [kind |-> "error", message |-> message]

\* Mutant: the catch block returns an empty result instead of throwing.
CatchSwallows(fn) == [kind |-> "value", value |-> <<>>]

\* catch (error) { console.error(...); throw new Error(<fixed message>) }
Catch(fn) == Throw(ErrorMessage(fn))

\* data.map((invoice) => ({...invoice, amount: formatCurrency(invoice.amount)}))
fetchLatestInvoicesBody(data) ==
  [k \in 1..Len(data) |-> [data[k] EXCEPT !.amount = formatCurrency(@)]]

\* Mutant: Math.floor in place of Math.ceil.
fetchInvoicesPagesBodyFloor(data) == data[1].count[1] \div ITEMS_PER_PAGE

\* Math.ceil(Number(data[0].count) / ITEMS_PER_PAGE)
fetchInvoicesPagesBody(data) == MathCeilDiv(data[1].count[1], ITEMS_PER_PAGE)

\* amount: invoice.amount / 100, kept exact as dollars and cents; invoice[0]
fetchInvoiceByIdBody(data) ==
  LET invoice ==
        [k \in 1..Len(data) |->
           [data[k] EXCEPT !.amount = [dollars |-> @ \div 100, cents |-> @ % 100]]]
  IN IF invoice = <<>> THEN Undefined ELSE invoice[1]

fetchFilteredCustomersBody(data) ==
  [k \in 1..Len(data) |->
     [data[k] EXCEPT !.total_pending = formatCurrency(@),
                     !.total_paid = formatCurrency(@)]]

\* Mutant: the results collected in order of completion.
PromiseAllValuesByCompletion == [k \in 1..3 |-> SqlCardQuery(order[k])]

\* The array Promise.all resolves to: the results by position in its argument.
PromiseAllValues == [i \in 1..3 |-> SqlCardQuery(i)]

fetchCardDataBody(data) ==
  [numberOfCustomers |-> Coalesce(data[2][1].count, 0),
   numberOfInvoices |-> Coalesce(data[1][1].count, 0),
   totalPaidInvoices |-> formatCurrency(Coalesce(data[3][1].paid, 0)),
   totalPendingInvoices |-> formatCurrency(Coalesce(data[3][1].pending, 0))]

---------------------------------------------------------------------------
(* Calls.  A call runs to its await (the statement is sent), and resumes    *)
(* when the database has answered or failed.                               *)

NoWalk ==
  [query |-> <<>>, on |-> FALSE, total |-> 0, ids |-> <<>>, sizes |-> <<>>]

NoPromises == [i \in 1..3 |-> "none"]

CallOf(fn, query, page, id) ==
  [query |-> query, id |-> id, fn |-> fn, page |-> page]

\* (currentPage - 1) * ITEMS_PER_PAGE
Offset(currentPage) == (currentPage - 1) * ITEMS_PER_PAGE

\* Whether call c goes on with the walk: the next page of the walked query.
ContinuesWalk(c) ==
  /\ c.fn = "fetchFilteredInvoices"
  /\ walk.on
  /\ c.query = walk.query
  /\ c.page = Len(walk.sizes) + 1

\* A caller that holds the outcome of a call repeats that call or asks for the
\* next page of its walk; any other call follows once it has let go (Finish).
Begin(c, statements, proms) ==
  /\ \/ pc = "idle"
     \/ pc = "done" /\ (c = call \/ ContinuesWalk(c))
  /\ pc' = "awaiting"
  /\ call' = c
  /\ sent' = statements
  /\ promises' = proms
  /\ order' = <<>>
  /\ reply' = "none"
  /\ prev' = IF pc = "done" /\ call = c THEN out ELSE NoOutcome
  /\ out' = NoOutcome
  /\ walk' = IF ContinuesWalk(c) THEN walk ELSE NoWalk
  /\ UNCHANGED <<dbVars, util>>

\* The caller lets go of the outcome; the tables are as they were.
Finish ==
  /\ pc = "done"
  /\ pc' = "idle"
  /\ call' = CallOf("none", <<>>, 0, 0)
  /\ sent' = <<>>
  /\ promises' = NoPromises
  /\ order' = <<>>
  /\ reply' = "none"
  /\ out' = NoOutcome
  /\ prev' = NoOutcome
  /\ walk' = NoWalk
  /\ UNCHANGED <<dbVars, util>>

Resume(fn, ok, outcome) ==
  /\ pc = "awaiting"
  /\ call.fn = fn
  /\ pc' = "done"
  /\ reply' = IF ok THEN "ok" ELSE "failed"
  /\ out' = outcome
  /\ UNCHANGED <<dbVars, call, sent, promises, order, prev, util>>

CallFetchRevenue ==
  Begin(CallOf("fetchRevenue", <<>>, 0, 0), <<[stmt |-> "revenue"]>>, NoPromises)

ResumeFetchRevenue ==
  \E ok \in BOOLEAN, start \in ScanStarts(revenue) :
    /\ Resume("fetchRevenue", ok,
              IF ok THEN Return(SqlRevenue(start)) ELSE Catch("fetchRevenue"))
    /\ UNCHANGED walk

CallFetchLatestInvoices ==
  Begin(CallOf("fetchLatestInvoices", <<>>, 0, 0),
        <<[stmt |-> "latestInvoices"]>>, NoPromises)

ResumeFetchLatestInvoices ==
  \E ok \in BOOLEAN, start \in ScanStarts(invoices) :
    /\ Resume("fetchLatestInvoices", ok,
              IF ok THEN Return(fetchLatestInvoicesBody(SqlLatestInvoices(start)))
              ELSE Catch("fetchLatestInvoices"))
    /\ UNCHANGED walk

CallFetchFilteredInvoices ==
  \E query \in Queries, currentPage \in Pages :
    Begin(CallOf("fetchFilteredInvoices", query, currentPage, 0),
          <<[pattern |-> Pattern(query), limit |-> ITEMS_PER_PAGE,
             offset |-> Offset(currentPage), stmt |-> "filteredInvoices"]>>,
          NoPromises)

\* The database rejects a negative OFFSET.
ResumeFetchFilteredInvoices ==
  \E ok \in BOOLEAN, start \in ScanStarts(invoices) :
    /\ pc = "awaiting"
    /\ call.fn = "fetchFilteredInvoices"
    /\ ok => sent[1].offset >= 0
    /\ LET rows == SqlFilteredInvoices(sent[1].pattern, sent[1].limit,
                                       sent[1].offset, start)
       IN /\ Resume("fetchFilteredInvoices", ok,
                    IF ok THEN Return(rows) ELSE Catch("fetchFilteredInvoices"))
          /\ walk' = IF walk.on /\ ok
                       THEN [walk EXCEPT
                               !.ids = @ \o [k \in 1..Len(rows) |-> rows[k].id],
                               !.sizes = Append(@, Len(rows))]
                       ELSE NoWalk

CallFetchInvoicesPages ==
  \E query \in Queries :
    Begin(CallOf("fetchInvoicesPages", query, 0, 0),
          <<[pattern |-> Pattern(query), stmt |-> "countFilteredInvoices"]>>,
          NoPromises)

ResumeFetchInvoicesPages ==
  \E ok \in BOOLEAN :
    LET totalPages ==
          fetchInvoicesPagesBody(SqlCountFilteredInvoices(sent[1].pattern))
    IN /\ Resume("fetchInvoicesPages", ok,
                 IF ok THEN Return(totalPages) ELSE Catch("fetchInvoicesPages"))
       /\ walk' = IF ok
                    THEN [query |-> call.query, on |-> TRUE,
                          total |-> totalPages, ids |-> <<>>, sizes |-> <<>>]
                    ELSE NoWalk

CallFetchInvoiceById ==
  \E id \in 1..MaxInvoices :
    Begin(CallOf("fetchInvoiceById", <<>>, 0, id),
          <<[id |-> id, stmt |-> "invoiceById"]>>, NoPromises)

ResumeFetchInvoiceById ==
  \E ok \in BOOLEAN, start \in ScanStarts(invoices) :
    /\ Resume("fetchInvoiceById", ok,
              IF ok THEN Return(fetchInvoiceByIdBody(SqlInvoiceById(sent[1].id, start)))
              ELSE Catch("fetchInvoiceById"))
    /\ UNCHANGED walk

CallFetchCustomers ==
  Begin(CallOf("fetchCustomers", <<>>, 0, 0), <<[stmt |-> "customers"]>>,
        NoPromises)

ResumeFetchCustomers ==
  \E ok \in BOOLEAN, start \in ScanStarts(customers) :
    /\ Resume("fetchCustomers", ok,
              IF ok THEN Return(SqlCustomers(start)) ELSE Catch("fetchCustomers"))
    /\ UNCHANGED walk

CallFetchFilteredCustomers ==
  \E query \in Queries :
    Begin(CallOf("fetchFilteredCustomers", query, 0, 0),
          <<[pattern |-> Pattern(query), stmt |-> "filteredCustomers"]>>,
          NoPromises)

ResumeFetchFilteredCustomers ==
  \E ok \in BOOLEAN, start \in ScanStarts(customers) :
    /\ Resume("fetchFilteredCustomers", ok,
              IF ok
                THEN Return(fetchFilteredCustomersBody(
                              SqlFilteredCustomers(sent[1].pattern, start)))
              ELSE Catch("fetchFilteredCustomers"))
    /\ UNCHANGED walk

\* The three statements are sent one after the other, none awaited.
CallFetchCardData ==
  Begin(CallOf("fetchCardData", <<>>, 0, 0),
        <<[stmt |-> "countInvoices"], [stmt |-> "countCustomers"],
          [stmt |-> "invoiceStatus"]>>,
        [i \in 1..3 |-> "pending"])

\* One of the three queries completes or fails; the others stay in flight,
\* also after Promise.all has rejected.
CardQuerySettles ==
  \E i \in 1..3, ok \in BOOLEAN :
    /\ call.fn = "fetchCardData"
    /\ pc \in {"awaiting", "done"}
    /\ promises[i] = "pending"
    /\ promises' = [promises EXCEPT ![i] = IF ok THEN "ok" ELSE "failed"]
    /\ order' = Append(order, i)
    /\ UNCHANGED <<dbVars, pc, call, sent, reply, out, prev, walk, util>>

\* Promise.all settles: rejected once one query has failed, fulfilled once all
\* three have completed.
ResumeFetchCardData ==
  LET failed == \E i \in 1..3 : promises[i] = "failed"
      ok == \A i \in 1..3 : promises[i] = "ok"
  IN /\ failed \/ ok
     /\ Resume("fetchCardData", ok,
               IF ok THEN Return(fetchCardDataBody(PromiseAllValues))
               ELSE Catch("fetchCardData"))
     /\ walk' = walk

---------------------------------------------------------------------------
(* app/lib/utils.ts.  A JavaScript number is finite or -Infinity; an array  *)
(* element of generatePagination is a number or the string '...'.          *)

Finite(n) == [n |-> n, infinite |-> FALSE]
NegInfinity == [n |-> 0, infinite |-> TRUE]

Num(n) == [num |-> n]
Ellipsis == [str |-> "..."]

\* Math.max(...values): -Infinity when there is no value
RECURSIVE MaxOf(_)
MaxOf(values) ==
  IF Len(values) = 1 THEN values[1]
  ELSE LET m == MaxOf(Tail(values)) IN IF values[1] >= m THEN values[1] ELSE m

MathMax(values) == IF values = <<>> THEN NegInfinity ELSE Finite(MaxOf(values))

\* Math.ceil(highestRecord / 1000) * 1000
TopLabel(highestRecord) ==
  IF highestRecord.infinite THEN NegInfinity
  ELSE Finite(MathCeilDiv(highestRecord.n, 1000) * 1000)

\* Mutant: the loop test i > 0.
LoopTestStrict(i) == ~i.infinite /\ i.n > 0

\* the loop test i >= 0
LoopTest(i) == ~i.infinite /\ i.n >= 0

\* `$${i / 1000}K`, for i a multiple of 1000
YLabel(i) == "$" \o ToString(i \div 1000) \o "K"

\* Mutant: the last-pages window taken one page late.
generatePaginationLate(currentPage, totalPages) ==
  IF totalPages <= 7
    THEN [i \in 1..totalPages |-> Num((i - 1) + 1)]
  ELSE IF currentPage <= 3
    THEN <<Num(1), Num(2), Num(3), Ellipsis, Num(totalPages - 1), Num(totalPages)>>
  ELSE IF currentPage >= totalPages - 1
    THEN <<Num(1), Num(2), Ellipsis, Num(totalPages - 2), Num(totalPages - 1),
           Num(totalPages)>>
  ELSE <<Num(1), Ellipsis, Num(currentPage - 1), Num(currentPage),
         Num(currentPage + 1), Ellipsis, Num(totalPages)>>

generatePagination(currentPage, totalPages) ==
  IF totalPages <= 7
    THEN [i \in 1..totalPages |-> Num((i - 1) + 1)]
  ELSE IF currentPage <= 3
    THEN <<Num(1), Num(2), Num(3), Ellipsis, Num(totalPages - 1), Num(totalPages)>>
  ELSE IF currentPage >= totalPages - 2
    THEN <<Num(1), Num(2), Ellipsis, Num(totalPages - 2), Num(totalPages - 1),
           Num(totalPages)>>
  ELSE <<Num(1), Ellipsis, Num(currentPage - 1), Num(currentPage),
         Num(currentPage + 1), Ellipsis, Num(totalPages)>>

NoUtil == [fn |-> "none"]

RevenueValues == {0 - 1500, 0 - 500, 0, 1200, 2300, 4500}

RevenueInputs ==
  UNION { [1..n -> { [revenue |-> v, month |-> "m"] : v \in RevenueValues }] :
          n \in 0..MaxRevenueLen }

GeneratePagination ==
  \E currentPage \in 1..MaxTotalPages, totalPages \in 0..MaxTotalPages :
    /\ util.fn # "generateYAxis.loop"
    /\ util' = [fn |-> "generatePagination", currentPage |-> currentPage,
                totalPages |-> totalPages,
                result |-> generatePagination(currentPage, totalPages)]
    /\ UNCHANGED <<dbVars, pc, call, sent, promises, order, reply, out, prev, walk>>

\* generateYAxis up to its loop: yAxisLabels = [], topLabel computed, i = topLabel
GenerateYAxis ==
  \E input \in RevenueInputs :
    LET topLabel ==
          TopLabel(MathMax([k \in 1..Len(input) |-> input[k].revenue]))
    IN /\ util.fn # "generateYAxis.loop"
       /\ util' = [revenue |-> input, i |-> topLabel,
                   fn |-> "generateYAxis.loop", topLabel |-> topLabel,
                   yAxisLabels |-> <<>>]
       /\ UNCHANGED <<dbVars, pc, call, sent, promises, order, reply, out, prev, walk>>

\* one iteration: yAxisLabels.push(label of i); i -= 1000
GenerateYAxisLoop ==
  /\ util.fn = "generateYAxis.loop"
  /\ LoopTest(util.i)
  /\ util' = [util EXCEPT !.yAxisLabels = Append(@, YLabel(util.i.n)),
                          !.i = Finite(util.i.n - 1000)]
  /\ UNCHANGED <<dbVars, pc, call, sent, promises, order, reply, out, prev, walk>>

\* the loop test fails: return { yAxisLabels, topLabel }
GenerateYAxisReturn ==
  /\ util.fn = "generateYAxis.loop"
  /\ ~LoopTest(util.i)
  /\ util' = [revenue |-> util.revenue, fn |-> "generateYAxis",
              result |-> [topLabel |-> util.topLabel,
                          yAxisLabels |-> util.yAxisLabels]]
  /\ UNCHANGED <<dbVars, pc, call, sent, promises, order, reply, out, prev, walk>>

---------------------------------------------------------------------------
(* Specifications. *)

InitCalls ==
  /\ pc = "idle"
  /\ call = CallOf("none", <<>>, 0, 0)
  /\ sent = <<>>
  /\ promises = NoPromises
  /\ order = <<>>
  /\ reply = "none"
  /\ out = NoOutcome
  /\ prev = NoOutcome
  /\ walk = NoWalk
  /\ util = NoUtil

\* The query functions over every table of invoices within the bounds.
Init ==
  /\ customers = CustomerTable
  /\ invoices \in InvoiceTables(MaxInvoices)
  /\ revenue = RevenueTable
  /\ InitCalls

Next ==
  \/ CallFetchRevenue
  \/ ResumeFetchRevenue
  \/ CallFetchLatestInvoices
  \/ ResumeFetchLatestInvoices
  \/ CallFetchFilteredInvoices
  \/ ResumeFetchFilteredInvoices
  \/ CallFetchInvoicesPages
  \/ ResumeFetchInvoicesPages
  \/ CallFetchInvoiceById
  \/ ResumeFetchInvoiceById
  \/ CallFetchCustomers
  \/ ResumeFetchCustomers
  \/ CallFetchFilteredCustomers
  \/ ResumeFetchFilteredCustomers
  \/ Finish

Spec == Init /\ [][Next]_vars

\* fetchCardData, its three queries completing in every order.
InitCard ==
  /\ customers = CustomerTable
  /\ invoices \in InvoiceTables(MaxCardInvoices)
  /\ revenue = RevenueTable
  /\ InitCalls

NextCard ==
  \/ CallFetchCardData
  \/ CardQuerySettles
  \/ ResumeFetchCardData
  \/ Finish

SpecCard == InitCard /\ [][NextCard]_vars

\* The pure helpers of utils.ts, which read no table.
InitUtils ==
  /\ customers = <<>>
  /\ invoices = <<>>
  /\ revenue = <<>>
  /\ InitCalls

NextUtils ==
  \/ GeneratePagination
  \/ GenerateYAxis
  \/ GenerateYAxisLoop
  \/ GenerateYAxisReturn

SpecUtils == InitUtils /\ [][NextUtils]_vars

---------------------------------------------------------------------------
(* Properties. *)

Returned(fn) == pc = "done" /\ call.fn = fn /\ out.kind = "value"

\* The joined invoice-customer pairs that match a query, by table position.
MatchingPairs(query) ==
  { ic \in (1..Len(invoices)) \X (1..Len(customers)) :
      LET i == invoices[ic[1]]
          c == customers[ic[2]]
      IN /\ i.customer_id = c.id
         /\ InvoiceMatches([name |-> c.name, email |-> c.email,
                            amount |-> i.amount, date |-> i.date,
                            status |-> i.status], Pattern(query)) }

\* C1: for totalPages >= 0 and 1 <= currentPage <= totalPages,
\* generatePagination returns 1..totalPages when totalPages <= 7, else
\* [1,2,3,'...',totalPages-1,totalPages] when currentPage <= 3, else
\* [1,2,'...',totalPages-2,totalPages-1,totalPages] when currentPage >=
\* totalPages-2, else [1,'...',currentPage-1,currentPage,currentPage+1,'...',
\* totalPages].
C1_PaginationWindow ==
  (/\ util.fn = "generatePagination"
   /\ 1 <= util.currentPage
   /\ util.currentPage <= util.totalPages) =>
    LET cp == util.currentPage
        tp == util.totalPages
        r == util.result
    IN IF tp <= 7
         THEN Len(r) = tp /\ \A k \in 1..tp : r[k] = Num(k)
       ELSE IF cp <= 3
         THEN r = <<Num(1), Num(2), Num(3), Ellipsis, Num(tp - 1), Num(tp)>>
       ELSE IF cp >= tp - 2
         THEN r = <<Num(1), Num(2), Ellipsis, Num(tp - 2), Num(tp - 1), Num(tp)>>
       ELSE r = <<Num(1), Ellipsis, Num(cp - 1), Num(cp), Num(cp + 1), Ellipsis,
                  Num(tp)>>

\* generatePagination(7, 9): the first of the last three pages of nine.
C1_Witness ==
  /\ util.fn = "generatePagination"
  /\ util.currentPage = 7
  /\ util.totalPages = 9
  /\ util.result = <<Num(1), Num(2), Ellipsis, Num(7), Num(8), Num(9)>>

\* C2: fetchInvoicesPages(query) returns ceil(n / 6), n the number of joined
\* invoice-customer rows matching the query (0 when nothing matches): the
\* least k >= 0 with 6 * k >= n.
C2_PagesIsCeiling ==
  Returned("fetchInvoicesPages") =>
    LET n == Cardinality(MatchingPairs(call.query))
    IN /\ out.value >= 0
       /\ 6 * out.value >= n
       /\ 6 * (out.value - 1) < n

\* Seven matching rows make two pages.
C2_Witness ==
  /\ Returned("fetchInvoicesPages")
  /\ Cardinality(MatchingPairs(call.query)) = 7
  /\ out.value = 2

\* C3: fetchFilteredInvoices(query, page) returns at most 6 rows, every row
\* matches the query, and the rows are in non-increasing order of date.
C3_FilteredPage ==
  Returned("fetchFilteredInvoices") =>
    /\ Len(out.value) <= 6
    /\ \A k \in 1..Len(out.value) :
         InvoiceMatches(out.value[k], Pattern(call.query))
    /\ \A k \in 1..(Len(out.value) - 1) :
         out.value[k].date >= out.value[k + 1].date

\* A full page holding two dates, of a table that also holds a row the
\* listing leaves out.
C3_Witness ==
  /\ Returned("fetchFilteredInvoices")
  /\ Len(out.value) = 6
  /\ out.value[1].date > out.value[6].date
  /\ Cardinality(MatchingPairs(call.query)) < Len(invoices)

\* C4: for every integer currentPage a caller passes, the OFFSET sent by
\* fetchFilteredInvoices is a non-negative multiple of the page size 6.
C4_OffsetNonNegativeMultiple ==
  (pc # "idle" /\ call.fn = "fetchFilteredInvoices") =>
    /\ sent[1].offset >= 0
    /\ sent[1].offset % 6 = 0

QueryFunctions ==
  {"fetchRevenue", "fetchLatestInvoices", "fetchFilteredInvoices",
   "fetchInvoicesPages", "fetchInvoiceById", "fetchCustomers",
   "fetchFilteredCustomers"}

\* C5: for each of the seven query functions, a failed query ends the call
\* with an error carrying only the function's fixed message and no value, the
\* statement having been sent once; a successful query ends it with a value.
C5_FailureTranslated ==
  (pc = "done" /\ call.fn \in QueryFunctions) =>
    /\ Len(sent) = 1
    /\ reply = "failed" => out = [kind |-> "error", message |-> ErrorMessage(call.fn)]
    /\ reply = "ok" => out.kind = "value"
    /\ reply \in {"failed", "ok"}

\* fetchInvoiceById ended by a failed query.
C5_Witness ==
  /\ pc = "done"
  /\ call.fn = "fetchInvoiceById"
  /\ reply = "failed"
  /\ out = [kind |-> "error", message |-> "Failed to fetch invoice."]

RECURSIVE SumAmounts(_)
SumAmounts(S) ==
  IF S = {} THEN 0
  ELSE LET i == CHOOSE x \in S : TRUE
       IN invoices[i].amount + SumAmounts(S \ {i})

\* The dashboard figures as the tables give them.
CardFigures ==
  LET all == 1..Len(invoices)
  IN [numberOfCustomers |-> Len(customers),
      numberOfInvoices |-> Len(invoices),
      totalPaidInvoices |->
        formatCurrency(SumAmounts({i \in all : invoices[i].status = PAID})),
      totalPendingInvoices |->
        formatCurrency(SumAmounts({i \in all : invoices[i].status = PENDING}))]

\* C6: fetchCardData sends its three queries before it waits on any; it
\* returns only after all three completed; in every order of completion a
\* failure of any one makes the call throw 'Failed to fetch card data.' with
\* no value; and the value returned does not depend on the order of completion.
C6_CardData ==
  call.fn = "fetchCardData" =>
    /\ Len(sent) = 3
    /\ \A i \in 1..3 : promises[i] # "none"
    /\ (pc = "done" /\ out.kind = "value") =>
         /\ \A i \in 1..3 : promises[i] = "ok"
         /\ out.value = CardFigures
    /\ (pc = "done" /\ \E i \in 1..3 : promises[i] = "failed") =>
         out = [kind |-> "error", message |-> "Failed to fetch card data."]
    /\ pc = "done" => out.kind \in {"value", "error"}

\* The three queries completed last to first, over a table with invoices.
C6_Witness ==
  /\ Returned("fetchCardData")
  /\ order = <<3, 2, 1>>
  /\ Len(invoices) = 3
  /\ out.value.numberOfInvoices = 3

\* The least multiple of 1000 that is at least m.
IsRoundedUp(t, m) == t % 1000 = 0 /\ t >= m /\ t - 1000 < m

RevenueOf(input) == [k \in 1..Len(input) |-> input[k].revenue]

\* The labels of top, top - 1000, ..., 0, ending with "$0K".
IsDescendingLabels(labels, top) ==
  /\ top >= 0
  /\ Len(labels) = (top \div 1000) + 1
  /\ \A k \in 1..Len(labels) :
       labels[k] = "$" \o ToString((top \div 1000) - (k - 1)) \o "K"
  /\ labels[Len(labels)] = "$0K"

\* C7 as stated: for every sequence of integer revenue values, topLabel is the
\* maximum rounded up to the nearest multiple of 1000 and yAxisLabels are the
\* labels of topLabel, topLabel - 1000, ..., 0, the last being "$0K".
C7_EverySequence ==
  util.fn = "generateYAxis" =>
    LET values == RevenueOf(util.revenue)
        r == util.result
    IN /\ ~r.topLabel.infinite
       /\ values # <<>>
       /\ IsRoundedUp(r.topLabel.n, MaxOf(values))
       /\ IsDescendingLabels(r.yAxisLabels, r.topLabel.n)

\* C7 amended: the same for every non-empty sequence whose maximum is greater
\* than -1000; and the loop ends: it runs with i = topLabel - 1000 * (labels
\* pushed), at most topLabel / 1000 + 1 times.
C7_NonEmptyNonNegativeTop ==
  LET values == RevenueOf(util.revenue)
      Covered == values # <<>> /\ MaxOf(values) > 0 - 1000
  IN /\ (util.fn = "generateYAxis" /\ Covered) =>
          /\ ~util.result.topLabel.infinite
          /\ IsRoundedUp(util.result.topLabel.n, MaxOf(values))
          /\ IsDescendingLabels(util.result.yAxisLabels, util.result.topLabel.n)
     /\ (util.fn = "generateYAxis.loop" /\ Covered) =>
          /\ ~util.i.infinite
          /\ util.i.n = util.topLabel.n - (1000 * Len(util.yAxisLabels))
          /\ Len(util.yAxisLabels) <= (util.topLabel.n \div 1000) + 1
          /\ util.i.n >= 0 - 1000

\* generateYAxis over [1200, 4500, 2300].
C7_Witness ==
  /\ util.fn = "generateYAxis"
  /\ RevenueOf(util.revenue) = <<1200, 4500, 2300>>
  /\ util.result = [topLabel |-> Finite(5000),
                    yAxisLabels |-> <<"$5K", "$4K", "$3K", "$2K", "$1K", "$0K">>]

\* C8: fetchFilteredCustomers(query) returns exactly one row per customer whose
\* name or email matches, customers without invoices included; total_invoices
\* is the customer's invoice count, total_pending and total_paid the formatted
\* sums of the customer's pending and paid amounts; without invoices these are
\* 0, "$0.00" and "$0.00".
C8_CustomerTotals ==
  Returned("fetchFilteredCustomers") =>
    LET rows == out.value
        matching == { c \in 1..Len(customers) :
                        \/ ILike(customers[c].name, Pattern(call.query))
                        \/ ILike(customers[c].email, Pattern(call.query)) }
        Own(id, status) ==
          { i \in 1..Len(invoices) :
              invoices[i].customer_id = id /\ invoices[i].status \in status }
    IN /\ Len(rows) = Cardinality(matching)
       /\ \A c \in matching :
            Cardinality({k \in 1..Len(rows) : rows[k].id = customers[c].id}) = 1
       /\ \A k \in 1..Len(rows) :
            /\ rows[k].total_invoices =
                 Cardinality(Own(rows[k].id, {PAID, PENDING}))
            /\ rows[k].total_pending =
                 formatCurrency(SumAmounts(Own(rows[k].id, {PENDING})))
            /\ rows[k].total_paid =
                 formatCurrency(SumAmounts(Own(rows[k].id, {PAID})))
            /\ Own(rows[k].id, {PAID, PENDING}) = {} =>
                 /\ rows[k].total_invoices = 0
                 /\ rows[k].total_pending = "$0.00"
                 /\ rows[k].total_paid = "$0.00"

\* A listing with a customer without invoices beside one with two paid ones.
C8_Witness ==
  /\ Returned("fetchFilteredCustomers")
  /\ \E k \in 1..Len(out.value) :
       /\ out.value[k].total_invoices = 0
       /\ out.value[k].total_pending = "$0.00"
       /\ out.value[k].total_paid = "$0.00"
  /\ \E k \in 1..Len(out.value) :
       /\ out.value[k].total_invoices = 2
       /\ out.value[k].total_paid = "$25.00"

\* Two consecutive calls with the same arguments returned the same value.
SameOutcomeTwice ==
  (pc = "done" /\ prev.kind = "value" /\ out.kind = "value") => out = prev

\* C9: two calls with identical arguments against unchanged tables return
\* identical results, rows in the same order, also fetchFilteredInvoices over
\* matching invoices that share a date; and no call changes the tables.
C9_Idempotent == [][dbVars' = dbVars /\ SameOutcomeTwice']_vars

RECURSIVE SumOfFirst(_, _)
SumOfFirst(ns, k) == IF k = 0 THEN 0 ELSE ns[k] + SumOfFirst(ns, k - 1)

\* C10: with P = fetchInvoicesPages(query), fetchFilteredInvoices(query, p)
\* returns 6 rows for 1 <= p < P, between 1 and 6 rows for p = P and none for
\* p > P; pages 1..P together hold every matching row exactly once.
C10_PagesPartition ==
  walk.on =>
    /\ \A p \in 1..Len(walk.sizes) :
         /\ p < walk.total => walk.sizes[p] = 6
         /\ p = walk.total => walk.sizes[p] >= 1 /\ walk.sizes[p] <= 6
         /\ p > walk.total => walk.sizes[p] = 0
    /\ Len(walk.sizes) >= walk.total =>
         LET listed == SubSeq(walk.ids, 1, SumOfFirst(walk.sizes, walk.total))
         IN /\ \A j, k \in 1..Len(listed) : listed[j] = listed[k] => j = k
            /\ {listed[k] : k \in 1..Len(listed)} =
                 {invoices[ic[1]].id : ic \in MatchingPairs(walk.query)}

====
